---- MODULE Spec2Model ----
(***************************************************************************)
(* Model of the achievement notification relay (src/index.ts).             *)
(*                                                                         *)
(* One route, POST /notify-achievement, runs three stages per request:     *)
(*   authenticateRequest  (lines 80-97, synchronous)                       *)
(*   upload.single(...)   (line 102, the multipart body is read)           *)
(*   the async handler    (lines 102-188), which suspends twice:           *)
(*       await client.channels.fetch(...)   line 143                       *)
(*       await channel.send(...)            line 180                       *)
(* and the chat client's 'ready' callback (lines 34-39) sets discordReady. *)
(*                                                                         *)
(* Node runs each synchronous stretch to completion, so every action below *)
(* is one such stretch.  Requests are the ones the framework delivers to   *)
(* the route: the cors and express.json middlewares (lines 73-76) run      *)
(* before the gate and are not modelled.  multer (lines 9-12, 102) runs    *)
(* after the gate; the requests modelled are those whose body it accepts,  *)
(* its size-limit error has no step here.  An exception that escapes the   *)
(* handler, or a failed login (lines 46-49), can end the whole process:    *)
(* `running` records whether the process is still alive.  Strings are      *)
(* TLA+ strings; the texts of the responses are the literals of the        *)
(* source.                                                                 *)
(***************************************************************************)
EXTENDS Integers, Sequences, FiniteSets, TLC

VARIABLES
    EXPECTED_SECRET,   \* line 16: process.env.FOUNDRY_SECRET, read once
    discordReady,      \* line 32: the readiness flag
    running,           \* the Node process is alive (it serves requests)
    pc,                \* per request: where its handling stands
    request,           \* per request: what the client sent
    flagAtArrival,     \* per request: the readiness flag when it arrived (history)
    readyRead,         \* per request: the value line 103 read ("unread" before)
    fetches,           \* per request: calls of client.channels.fetch made
    sends,             \* per request: calls of channel.send made
    channelGot,        \* per request: what its fetch settled with
    channelKnown,      \* per request: the fetch of another request had
                       \* settled with a text channel when its own fetch
                       \* was called (history)
    sendGot,           \* per request: what its send settled with
    outbound,          \* per request: the argument of channel.send, if called
    thrown,            \* per request: the error raised inside the handler, if any
    response           \* per request: the HTTP response written, if any

vars == <<EXPECTED_SECRET, discordReady, running, pc, request, flagAtArrival,
          readyRead, fetches, sends,
          channelGot, channelKnown, sendGot, outbound, thrown, response>>

-----------------------------------------------------------------------------
(* Bounds of the model                                                     *)

\* Longest text, in characters, that follows the scheme word of a generated
\* Authorization header.
MaxTail == 3

-----------------------------------------------------------------------------
(* String helpers: what String.prototype.startsWith and split(' ') compute *)

StartsWith(s, p) == Len(s) >= Len(p) /\ SubSeq(s, 1, Len(p)) = p

\* Position of the first occurrence of the one-character string c in s at or
\* after position from; 0 when there is none.
RECURSIVE IndexOf(_, _, _)
IndexOf(s, c, from) ==
    IF from > Len(s) THEN 0
    ELSE IF SubSeq(s, from, from) = c THEN from
    ELSE IndexOf(s, c, from + 1)

\* s.split(' '): the pieces between the spaces, empty pieces included.
RECURSIVE Split(_)
Split(s) ==
    LET i == IndexOf(s, " ", 1) IN
    IF i = 0 THEN <<s>>
    ELSE <<SubSeq(s, 1, i - 1)>> \o Split(SubSeq(s, i + 1, Len(s)))

\* The text of a header after its first seven characters.
AfterBearer(s) == SubSeq(s, 8, Len(s))

\* All strings over alphabet A of length at most n.
RECURSIVE Strings(_, _)
Strings(A, n) ==
    IF n = 0 THEN {""}
    ELSE LET P == Strings(A, n - 1) IN P \cup {s \o c : s \in P, c \in A}

\* The HTTP parser strips the optional whitespace around a header value.
Trimmed(s) ==
    s = "" \/ (SubSeq(s, 1, 1) # " " /\ SubSeq(s, Len(s), Len(s)) # " ")

-----------------------------------------------------------------------------
(* Outcomes of a synchronous stretch of a handler                          *)

NoEmbed == [title |-> "", description |-> "", fields |-> <<>>,
            image |-> "", thumbnail |-> ""]

\* res.status(status).json(body); return
Respond(status, body) ==
    [kind |-> "respond", status |-> status, body |-> body, error |-> "",
     embed |-> NoEmbed, files |-> <<>>]

\* next(), or falling through to the next await
Continue ==
    [kind |-> "continue", status |-> 0, body |-> "", error |-> "",
     embed |-> NoEmbed, files |-> <<>>]

\* an exception leaving the stretch
Throw(error) ==
    [kind |-> "throw", status |-> 0, body |-> "", error |-> error,
     embed |-> NoEmbed, files |-> <<>>]

\* channel.send({ embeds: [embed], files })
Send(embed, files) ==
    [kind |-> "send", status |-> 0, body |-> "", error |-> "",
     embed |-> embed, files |-> files]

-----------------------------------------------------------------------------
(* Credential gate, lines 80-97                                            *)

BodyUnauthorized == "Unauthorized: Missing authorization header"
BodyForbidden == "Forbidden: Invalid secret"

\* req.headers.authorization: absent, or a string.
NoHeader == [present |-> FALSE, value |-> ""]
Header(s) == [present |-> TRUE, value |-> s]

\* The gate without the scheme check of line 82: any non-empty header goes
\* on to the comparison of its second word.
authenticateRequest_NoSchemeCheck(authHeader, secret) ==
    IF ~authHeader.present \/ authHeader.value = ""
    THEN Respond(401, BodyUnauthorized)
    ELSE LET parts == Split(authHeader.value) IN
         IF Len(parts) < 2 \/ parts[2] # secret
         THEN Respond(403, BodyForbidden)
         ELSE Continue

\* The gate answering a wrong secret like a missing header.
authenticateRequest_Merged(authHeader, secret) ==
    IF \/ ~authHeader.present
       \/ authHeader.value = ""
       \/ ~StartsWith(authHeader.value, "Bearer ")
    THEN Respond(401, BodyUnauthorized)
    ELSE IF Split(authHeader.value)[2] # secret
         THEN Respond(401, BodyUnauthorized)
         ELSE Continue

authenticateRequest(authHeader, secret) ==
    IF \/ ~authHeader.present
       \/ authHeader.value = ""
       \/ ~StartsWith(authHeader.value, "Bearer ")
    THEN Respond(401, BodyUnauthorized)
    ELSE LET providedSecret == Split(authHeader.value)[2] IN
         IF providedSecret # secret
         THEN Respond(403, BodyForbidden)
         ELSE Continue

-----------------------------------------------------------------------------
(* JSON values and JSON.parse, lines 111-124                               *)

\* A property value of a decoded object: absent (undefined), or a JSON
\* string, number or null.  A number carries its decimal text.
Undefined == [t |-> "undefined", s |-> ""]
Null == [t |-> "null", s |-> "null"]
Str(s) == [t |-> "string", s |-> s]
Num(s) == [t |-> "number", s |-> s]

Keys == <<"userName", "achievementName", "achievementDescription", "iconSource">>

NoProps ==
    [userName |-> Undefined, achievementName |-> Undefined,
     achievementDescription |-> Undefined, iconSource |-> Undefined]

\* A decoded JSON value: null, a number, a string, an array or an object
\* with the four properties the handler reads (Undefined when the key is
\* not there).
JNull == [t |-> "null", s |-> "null", f |-> NoProps]
JNum(s) == [t |-> "number", s |-> s, f |-> NoProps]
JStr(s) == [t |-> "string", s |-> s, f |-> NoProps]
JArr == [t |-> "array", s |-> "[]", f |-> NoProps]
JObj(u, a, d, i) ==
    [t |-> "object", s |-> "",
     f |-> [userName |-> u, achievementName |-> a,
            achievementDescription |-> d, iconSource |-> i]]

Quote(s) == "\"" \o s \o "\""

StringifyProp(v) ==
    CASE v.t = "string" -> Quote(v.s)
      [] v.t = "number" -> v.s
      [] OTHER -> "null"

\* The members of an object, comma separated; absent keys are left out.
RECURSIVE Members(_, _, _)
Members(f, k, first) ==
    IF k > Len(Keys) THEN ""
    ELSE LET v == f[Keys[k]] IN
         IF v.t = "undefined" THEN Members(f, k + 1, first)
         ELSE (IF first THEN "" ELSE ",")
              \o Quote(Keys[k]) \o ":" \o StringifyProp(v)
              \o Members(f, k + 1, FALSE)

\* The JSON text of a value (what the client's JSON.stringify wrote).
JSONStringify(v) ==
    CASE v.t = "object" -> "{" \o Members(v.f, 1, TRUE) \o "}"
      [] v.t = "string" -> Quote(v.s)
      [] OTHER -> v.s

PropValues(k) ==
    CASE k = "userName" -> {Undefined, Str(""), Str("Alice")}
      [] k = "achievementName" -> {Undefined, Str(""), Str("Dragon Slayer"), Num("7")}
      [] k = "achievementDescription" -> {Undefined, Str(""), Str("Slew the dragon")}
      [] k = "iconSource" ->
            {Undefined, Null, Str(""), Str("http://cdn/i.png"),
             Str("https://cdn/i.png"), Str("ftp://evil"), Num("123")}

JsonValues ==
    {JNull, JNum("5"), JStr("Alice"), JArr}
    \cup {JObj(u, a, d, i) : u \in PropValues("userName"),
                             a \in PropValues("achievementName"),
                             d \in PropValues("achievementDescription"),
                             i \in PropValues("iconSource")}

\* JSON.parse(text): the value whose JSON text this is; a SyntaxError for a
\* text that is the JSON text of no value.
JsonTexts == {JSONStringify(v) : v \in JsonValues}

Parsed == [text \in JsonTexts |-> CHOOSE v \in JsonValues : JSONStringify(v) = text]

JSONParse(text) ==
    IF text \in JsonTexts
    THEN [ok |-> TRUE, value |-> Parsed[text]]
    ELSE [ok |-> FALSE, value |-> JNull]

\* JavaScript truthiness of a property value.
Truthy(v) ==
    CASE v.t = "string" -> v.s # ""
      [] v.t = "number" -> v.s # "0"
      [] OTHER -> FALSE

\* payload.<key>: undefined on anything that is not an object with the key.
Get(payload, key) == IF payload.t = "object" THEN payload.f[key] ELSE Undefined

\* `${v}`
Interpolate(v) == IF v.t = "undefined" THEN "undefined" ELSE v.s

\* req.body.jsonData: absent, or the text of the multipart field.
NoField == [present |-> FALSE, text |-> ""]
Field(t) == [present |-> TRUE, text |-> t]

\* req.file: absent, or an upload with its declared original filename.
NoFile == [present |-> FALSE, originalname |-> ""]
File(name) == [present |-> TRUE, originalname |-> name]

-----------------------------------------------------------------------------
(* The handler up to its first await, lines 103-143                        *)

BodyNotReady == "Service Unavailable: Discord client not ready"
BodyBadJson == "Bad Request: Invalid or missing jsonData field."
BodyMissingNames == "Bad Request: Missing userName or achievementName"
BodyNoChannel == "Internal Server Error: Could not find or use target Discord channel"
BodyFailed == "Internal Server Error: Failed to send Discord notification"
BodySent == "Notification sent successfully"

ErrDestructure == "TypeError: Cannot destructure property 'userName' of 'payload' as it is null."
ErrStartsWith == "TypeError: iconSource.startsWith is not a function"

\* Lines 112-119: the try block that reads and parses req.body.jsonData.
\* Both the missing-field Error and JSON.parse's SyntaxError land in the
\* catch, which answers 400.
decodePayload(jsonData) ==
    IF ~jsonData.present \/ jsonData.text = ""
    THEN [ok |-> FALSE, value |-> JNull]
    ELSE JSONParse(jsonData.text)

\* The handler checking readiness only after the payload is validated.
notifyAchievement_DecodeFirst(ready, jsonData) ==
    LET decoded == decodePayload(jsonData) IN
    IF ~decoded.ok THEN Respond(400, BodyBadJson)
    ELSE IF decoded.value.t = "null" THEN Throw(ErrDestructure)
    ELSE IF \/ ~Truthy(Get(decoded.value, "userName"))
            \/ ~Truthy(Get(decoded.value, "achievementName"))
    THEN Respond(400, BodyMissingNames)
    ELSE IF ~ready THEN Respond(503, BodyNotReady)
    ELSE Continue

\* The handler without the try/catch of lines 112-119: a decoding failure
\* leaves the handler as an exception.
notifyAchievement_Uncaught(ready, jsonData) ==
    IF ~ready THEN Respond(503, BodyNotReady)
    ELSE LET decoded == decodePayload(jsonData) IN
         IF ~decoded.ok THEN Throw("SyntaxError: Unexpected token in JSON")
         ELSE IF decoded.value.t = "null" THEN Throw(ErrDestructure)
         ELSE IF \/ ~Truthy(Get(decoded.value, "userName"))
                 \/ ~Truthy(Get(decoded.value, "achievementName"))
         THEN Respond(400, BodyMissingNames)
         ELSE Continue

\* Lines 103-143, from the readiness check to the call of fetch.
notifyAchievement(ready, jsonData) ==
    IF ~ready THEN Respond(503, BodyNotReady)
    ELSE LET decoded == decodePayload(jsonData) IN
         IF ~decoded.ok THEN Respond(400, BodyBadJson)
         ELSE LET payload == decoded.value IN
              \* line 124: destructuring null throws, outside every try
              IF payload.t = "null" THEN Throw(ErrDestructure)
              ELSE IF \/ ~Truthy(Get(payload, "userName"))
                      \/ ~Truthy(Get(payload, "achievementName"))
              THEN Respond(400, BodyMissingNames)
              ELSE Continue

-----------------------------------------------------------------------------
(* The handler after the channel is fetched, lines 145-180                 *)

Title == "Achievement Unlocked!"   \* line 154, without its two emoji

\* What client.channels.fetch settles with: a text channel, a channel of
\* another type, nothing, or a rejection carrying an error.
FetchResults ==
    {[kind |-> "TextChannel", error |-> ""],
     [kind |-> "VoiceChannel", error |-> ""],
     [kind |-> "null", error |-> ""],
     [kind |-> "rejected", error |-> "DiscordAPIError[10003]: Unknown Channel"],
     [kind |-> "rejected", error |-> "Error: connect ETIMEDOUT"]}

\* What channel.send settles with.
SendResults ==
    {[ok |-> TRUE, error |-> ""],
     [ok |-> FALSE, error |-> "DiscordAPIError[50013]: Missing Permissions"],
     [ok |-> FALSE, error |-> "Error: socket hang up"]}

\* The embed with a description that names the user only.
baseEmbed_UserOnly(payload) ==
    LET achievementDescription == Get(payload, "achievementDescription") IN
    [title |-> Title,
     description |-> "**" \o Interpolate(Get(payload, "userName"))
                     \o "** has unlocked an achievement!",
     fields |-> IF Truthy(achievementDescription)
                THEN <<[name |-> "Description", value |-> achievementDescription.s]>>
                ELSE <<>>,
     image |-> "",
     thumbnail |-> ""]

\* Lines 152-160: title, description and the optional Description field.
baseEmbed(payload) ==
    LET achievementDescription == Get(payload, "achievementDescription") IN
    [title |-> Title,
     description |-> "**" \o Interpolate(Get(payload, "userName"))
                     \o "** has unlocked the achievement: **"
                     \o Interpolate(Get(payload, "achievementName")) \o "**!",
     fields |-> IF Truthy(achievementDescription)
                THEN <<[name |-> "Description", value |-> achievementDescription.s]>>
                ELSE <<>>,
     image |-> "",
     thumbnail |-> ""]

\* The attachment always given the generated name.
attachmentName_Generated(uploadedFile, payload) ==
    "achievement-" \o Interpolate(Get(payload, "achievementName")) \o ".png"

\* Line 166: the name given to the attachment.
attachmentName(uploadedFile, payload) ==
    IF uploadedFile.originalname # "" THEN uploadedFile.originalname
    ELSE "achievement-" \o Interpolate(Get(payload, "achievementName")) \o ".png"

\* The image policy with the URL consulted first and the upload still
\* attached.
buildAndSend_UrlFirst(payload, uploadedFile) ==
    LET embed == baseEmbed(payload)
        iconSource == Get(payload, "iconSource")
        name == attachmentName(uploadedFile, payload)
        files == IF uploadedFile.present THEN <<name>> ELSE <<>>
    IN  IF Truthy(iconSource)
        THEN IF iconSource.t # "string" THEN Throw(ErrStartsWith)
             ELSE IF \/ StartsWith(iconSource.s, "http://")
                     \/ StartsWith(iconSource.s, "https://")
             THEN Send([embed EXCEPT !.thumbnail = iconSource.s], files)
             ELSE IF uploadedFile.present
             THEN Send([embed EXCEPT !.image = "attachment://" \o name], files)
             ELSE Send(embed, files)
        ELSE IF uploadedFile.present
        THEN Send([embed EXCEPT !.image = "attachment://" \o name], files)
        ELSE Send(embed, files)

\* The image policy without the URL fallback of lines 172-176.
buildAndSend_NoFallback(payload, uploadedFile) ==
    LET embed == baseEmbed(payload)
        iconSource == Get(payload, "iconSource")
    IN  IF uploadedFile.present
        THEN LET name == attachmentName(uploadedFile, payload) IN
             Send([embed EXCEPT !.image = "attachment://" \o name], <<name>>)
        ELSE IF Truthy(iconSource) /\ iconSource.t # "string"
        THEN Throw(ErrStartsWith)
        ELSE Send(embed, <<>>)

\* The image policy without the http(s) prefix check of line 172.
buildAndSend_NoPrefixCheck(payload, uploadedFile) ==
    LET embed == baseEmbed(payload)
        iconSource == Get(payload, "iconSource")
    IN  IF uploadedFile.present
        THEN LET name == attachmentName(uploadedFile, payload) IN
             Send([embed EXCEPT !.image = "attachment://" \o name], <<name>>)
        ELSE IF Truthy(iconSource)
        THEN IF iconSource.t # "string" THEN Throw(ErrStartsWith)
             ELSE Send([embed EXCEPT !.thumbnail = iconSource.s], <<>>)
        ELSE Send(embed, <<>>)

\* Lines 152-180: build the embed, choose the image, call send.
buildAndSend(payload, uploadedFile) ==
    LET embed == baseEmbed(payload)
        iconSource == Get(payload, "iconSource")
    IN  IF uploadedFile.present
        THEN LET name == attachmentName(uploadedFile, payload) IN
             Send([embed EXCEPT !.image = "attachment://" \o name], <<name>>)
        ELSE IF Truthy(iconSource)
        THEN IF iconSource.t # "string" THEN Throw(ErrStartsWith)
             ELSE IF \/ StartsWith(iconSource.s, "http://")
                     \/ StartsWith(iconSource.s, "https://")
             THEN Send([embed EXCEPT !.thumbnail = iconSource.s], <<>>)
             ELSE Send(embed, <<>>)
        ELSE Send(embed, <<>>)

\* The catch putting the error's message into the response.
catchError_Leak(error) == Respond(500, "Internal Server Error: " \o error)

\* Lines 184-187: the catch of the handler's try.
catchError(error) == Respond(500, BodyFailed)

\* The channel check of line 145 without its instanceof half.
afterFetch_NoTypeCheck(channel, payload, uploadedFile) ==
    IF channel.kind = "rejected" THEN Throw(channel.error)
    ELSE IF channel.kind = "null" THEN Respond(500, BodyNoChannel)
    ELSE buildAndSend(payload, uploadedFile)

\* Lines 143-180, once fetch has settled.
afterFetch(channel, payload, uploadedFile) ==
    IF channel.kind = "rejected" THEN Throw(channel.error)
    ELSE IF channel.kind # "TextChannel" THEN Respond(500, BodyNoChannel)
    ELSE buildAndSend(payload, uploadedFile)

\* The handler answering 200 whatever send settled with.
afterSend_IgnoreFailure(result) == Respond(200, BodySent)

\* Lines 180-187, once send has settled.
afterSend(result) ==
    IF result.ok THEN Respond(200, BodySent) ELSE Throw(result.error)

\* The try/catch of lines 141-187 around a stretch.
Caught(outcome) ==
    IF outcome.kind = "throw" THEN catchError(outcome.error) ELSE outcome

-----------------------------------------------------------------------------
(* What a client may send, and how the process may be configured           *)

Schemes == {"", "Bearer", "Bearer ", "bearer ", "Basic "}
TailAlphabet == {"s", "x", " "}

HeaderTexts ==
    {h \in {p \o t : p \in Schemes, t \in Strings(TailAlphabet, MaxTail)} :
        Trimmed(h)}

Headers == {NoHeader} \cup {Header(h) : h \in HeaderTexts}

\* Line 20: the process exits unless the secret is a non-empty string.
Secrets == {"s", "s x"}

Fields ==
    {NoField, Field(""), Field("{bad"), Field("undefined")}
    \cup {Field(text) : text \in JsonTexts}

Files == {NoFile, File("trophy.png"), File("")}

Inputs == [authorization : Headers, jsonData : Fields, file : Files]

-----------------------------------------------------------------------------
(* State                                                                   *)

NoRequest == [authorization |-> NoHeader, jsonData |-> NoField, file |-> NoFile]
NoResponse == [status |-> 0, body |-> ""]
NotSettled == [kind |-> "none", error |-> ""]
NoSend == [called |-> FALSE, embed |-> NoEmbed, files |-> <<>>]

BodyFramework == "(the framework's error page)"

\* An exception that leaves the async handler rejects its promise.  Nothing
\* in the source handles it (no catch, no error middleware, no
\* 'unhandledRejection' listener), and the source fixes neither the
\* framework nor the runtime version:
\*   "framework"  the framework forwards the rejection to its own error
\*                handler, which answers 500;
\*   "exit"       the rejection stays unhandled and the runtime ends the
\*                process: the request and every other request in flight
\*                are dropped, and nothing is served any more;
\*   "hung"       the rejection stays unhandled and the runtime only warns:
\*                the request is left without a response.
UnhandledOutcomes == {"hung", "framework", "exit"}

\* Where a request that is being handled can stand.
InFlight == {"upload", "fetching", "sending"}

InitOn(slots) ==
    /\ EXPECTED_SECRET \in Secrets
    /\ discordReady = FALSE
    /\ running = TRUE
    /\ pc = [r \in slots |-> "idle"]
    /\ request = [r \in slots |-> NoRequest]
    /\ flagAtArrival = [r \in slots |-> FALSE]
    /\ readyRead = [r \in slots |-> "unread"]
    /\ fetches = [r \in slots |-> 0]
    /\ sends = [r \in slots |-> 0]
    /\ channelGot = [r \in slots |-> NotSettled]
    /\ channelKnown = [r \in slots |-> FALSE]
    /\ sendGot = [r \in slots |-> NotSettled]
    /\ outbound = [r \in slots |-> NoSend]
    /\ thrown = [r \in slots |-> ""]
    /\ response = [r \in slots |-> NoResponse]

\* A lifecycle callback that flips the flag each time it runs.
ClientReady_Toggle ==
    /\ running
    /\ discordReady' = ~discordReady
    /\ UNCHANGED <<EXPECTED_SECRET, running, pc, request, flagAtArrival,
                   readyRead, fetches, sends, channelGot, channelKnown,
                   sendGot, outbound, thrown, response>>

\* Lines 34-39: client.once('ready', ...).
ClientReady ==
    /\ running
    /\ ~discordReady
    /\ discordReady' = TRUE
    /\ UNCHANGED <<EXPECTED_SECRET, running, pc, request, flagAtArrival,
                   readyRead, fetches, sends, channelGot, channelKnown,
                   sendGot, outbound, thrown, response>>

\* Lines 46-49: the promise of client.login rejects and its catch calls
\* process.exit(1).  The ready event follows a successful login, so this
\* happens only while the flag is not ready.  Every request in flight is
\* dropped and nothing is served any more.
LoginRejects ==
    /\ running
    /\ ~discordReady
    /\ running' = FALSE
    /\ pc' = [q \in DOMAIN pc |->
                 IF pc[q] \in InFlight THEN "dropped" ELSE pc[q]]
    /\ UNCHANGED <<EXPECTED_SECRET, discordReady, request, flagAtArrival,
                   readyRead, fetches, sends, channelGot, channelKnown,
                   sendGot, outbound, thrown, response>>

\* Lines 80-97 and 102: a request reaches the route and runs the gate.
Receive(r, inputs) ==
    /\ running
    /\ pc[r] = "idle"
    /\ \E req \in inputs :
         LET o == authenticateRequest(req.authorization, EXPECTED_SECRET) IN
         /\ request' = [request EXCEPT ![r] = req]
         /\ flagAtArrival' = [flagAtArrival EXCEPT ![r] = discordReady]
         /\ IF o.kind = "respond"
            THEN /\ pc' = [pc EXCEPT ![r] = "done"]
                 /\ response' = [response EXCEPT ![r] =
                                    [status |-> o.status, body |-> o.body]]
            ELSE /\ pc' = [pc EXCEPT ![r] = "upload"]
                 /\ UNCHANGED response
    /\ UNCHANGED <<EXPECTED_SECRET, discordReady, running, readyRead, fetches,
                   sends, channelGot, channelKnown, sendGot, outbound,
                   thrown>>

\* Lines 102-143 for a handler that reads `ready` at line 103.
HandleWith(r, ready) ==
    /\ running
    /\ pc[r] = "upload"
    /\ readyRead' = [readyRead EXCEPT ![r] =
                        IF ready THEN "ready" ELSE "notready"]
    /\ LET o == notifyAchievement(ready, request[r].jsonData) IN
       CASE o.kind = "respond" ->
              /\ pc' = [pc EXCEPT ![r] = "done"]
              /\ response' = [response EXCEPT ![r] =
                                 [status |-> o.status, body |-> o.body]]
              /\ UNCHANGED <<running, fetches, channelKnown, thrown>>
         [] o.kind = "throw" ->
              /\ thrown' = [thrown EXCEPT ![r] = o.error]
              /\ \E u \in UnhandledOutcomes :
                    CASE u = "hung" ->
                           /\ pc' = [pc EXCEPT ![r] = "hung"]
                           /\ UNCHANGED <<running, response>>
                      [] u = "framework" ->
                           /\ pc' = [pc EXCEPT ![r] = "done"]
                           /\ response' = [response EXCEPT ![r] =
                                  [status |-> 500, body |-> BodyFramework]]
                           /\ UNCHANGED running
                      [] OTHER ->
                           /\ running' = FALSE
                           /\ pc' = [q \in DOMAIN pc |->
                                        IF q = r THEN "hung"
                                        ELSE IF pc[q] \in InFlight
                                        THEN "dropped"
                                        ELSE pc[q]]
                           /\ UNCHANGED response
              /\ UNCHANGED <<fetches, channelKnown>>
         [] OTHER ->
              /\ pc' = [pc EXCEPT ![r] = "fetching"]
              /\ fetches' = [fetches EXCEPT ![r] = @ + 1]
              /\ channelKnown' = [channelKnown EXCEPT ![r] =
                     \E q \in DOMAIN pc \ {r} :
                        channelGot[q].kind = "TextChannel"]
              /\ UNCHANGED <<running, response, thrown>>
    /\ UNCHANGED <<EXPECTED_SECRET, discordReady, request, flagAtArrival, sends,
                   channelGot, sendGot, outbound>>

\* A handler that uses the value the flag had when the request arrived.
Handle_StaleFlag(r) == HandleWith(r, flagAtArrival[r])

\* Lines 102-143: multer has read the body; the handler reads the flag and
\* runs to its first await.
Handle(r) == HandleWith(r, discordReady)

\* The payload the handler holds across its awaits (line 114).
PayloadOf(r) == decodePayload(request[r].jsonData).value

\* A handler that keeps the channel an earlier request resolved and uses it
\* in place of what its own resolution returns.
FetchSettles_Cached(r) ==
    /\ running
    /\ pc[r] = "fetching"
    /\ \E channel \in FetchResults :
         LET used == IF channelKnown[r]
                     THEN [kind |-> "TextChannel", error |-> ""]
                     ELSE channel
             raw == afterFetch(used, PayloadOf(r), request[r].file)
             o == Caught(raw)
         IN  /\ channelGot' = [channelGot EXCEPT ![r] = channel]
             /\ thrown' = [thrown EXCEPT ![r] =
                              IF raw.kind = "throw" THEN raw.error ELSE @]
             /\ IF o.kind = "send"
                THEN /\ pc' = [pc EXCEPT ![r] = "sending"]
                     /\ sends' = [sends EXCEPT ![r] = @ + 1]
                     /\ outbound' = [outbound EXCEPT ![r] =
                            [called |-> TRUE, embed |-> o.embed, files |-> o.files]]
                     /\ UNCHANGED response
                ELSE /\ pc' = [pc EXCEPT ![r] = "done"]
                     /\ response' = [response EXCEPT ![r] =
                            [status |-> o.status, body |-> o.body]]
                     /\ UNCHANGED <<sends, outbound>>
    /\ UNCHANGED <<EXPECTED_SECRET, discordReady, running, request,
                   flagAtArrival, readyRead, fetches, channelKnown, sendGot>>

\* Lines 143-180: fetch settles; the handler runs to its second await, or to
\* a response.
FetchSettles(r) ==
    /\ running
    /\ pc[r] = "fetching"
    /\ \E channel \in FetchResults :
         LET raw == afterFetch(channel, PayloadOf(r), request[r].file)
             o == Caught(raw)
         IN  /\ channelGot' = [channelGot EXCEPT ![r] = channel]
             /\ thrown' = [thrown EXCEPT ![r] =
                              IF raw.kind = "throw" THEN raw.error ELSE @]
             /\ IF o.kind = "send"
                THEN /\ pc' = [pc EXCEPT ![r] = "sending"]
                     /\ sends' = [sends EXCEPT ![r] = @ + 1]
                     /\ outbound' = [outbound EXCEPT ![r] =
                            [called |-> TRUE, embed |-> o.embed, files |-> o.files]]
                     /\ UNCHANGED response
                ELSE /\ pc' = [pc EXCEPT ![r] = "done"]
                     /\ response' = [response EXCEPT ![r] =
                            [status |-> o.status, body |-> o.body]]
                     /\ UNCHANGED <<sends, outbound>>
    /\ UNCHANGED <<EXPECTED_SECRET, discordReady, running, request,
                   flagAtArrival, readyRead, fetches, channelKnown, sendGot>>

\* A handler that calls send once more after a rejected send.
SendSettles_Retry(r) ==
    /\ running
    /\ pc[r] = "sending"
    /\ \E result \in SendResults :
         LET o == Caught(afterSend(result)) IN
         /\ sendGot' = [sendGot EXCEPT ![r] =
                [kind |-> IF result.ok THEN "ok" ELSE "rejected",
                 error |-> result.error]]
         /\ IF ~result.ok /\ sends[r] < 2
            THEN /\ sends' = [sends EXCEPT ![r] = @ + 1]
                 /\ UNCHANGED <<pc, response, thrown>>
            ELSE /\ pc' = [pc EXCEPT ![r] = "done"]
                 /\ response' = [response EXCEPT ![r] =
                        [status |-> o.status, body |-> o.body]]
                 /\ thrown' = [thrown EXCEPT ![r] = result.error]
                 /\ UNCHANGED sends
    /\ UNCHANGED <<EXPECTED_SECRET, discordReady, running, request,
                   flagAtArrival, readyRead, fetches, channelGot,
                   channelKnown, outbound>>

\* Lines 180-187: send settles; the handler answers.
SendSettles(r) ==
    /\ running
    /\ pc[r] = "sending"
    /\ \E result \in SendResults :
         LET raw == afterSend(result)
             o == Caught(raw)
         IN  /\ sendGot' = [sendGot EXCEPT ![r] =
                    [kind |-> IF result.ok THEN "ok" ELSE "rejected",
                     error |-> result.error]]
             /\ thrown' = [thrown EXCEPT ![r] =
                              IF raw.kind = "throw" THEN raw.error ELSE @]
             /\ pc' = [pc EXCEPT ![r] = "done"]
             /\ response' = [response EXCEPT ![r] =
                    [status |-> o.status, body |-> o.body]]
    /\ UNCHANGED <<EXPECTED_SECRET, discordReady, running, request,
                   flagAtArrival, readyRead, fetches, sends, channelGot,
                   channelKnown, outbound>>

-----------------------------------------------------------------------------
(* One request, any input                                                  *)

Init == InitOn({1})

Next ==
    \/ ClientReady
    \/ LoginRejects
    \/ Receive(1, Inputs)
    \/ Handle(1)
    \/ FetchSettles(1)
    \/ SendSettles(1)

Spec == Init /\ [][Next]_vars

-----------------------------------------------------------------------------
(* Several requests in flight at once, a few inputs each                   *)

\* Number of requests the framework is servicing concurrently.
NumRequests == 2

Attempt(header, text, file) ==
    [authorization |-> header, jsonData |-> Field(text), file |-> file]

Named(icon) ==
    JSONStringify(JObj(Str("Alice"), Str("Dragon Slayer"), Undefined, icon))

\* One input for each path through the gate and the handler.
FewInputs ==
    {Attempt(NoHeader, Named(Undefined), NoFile),
     Attempt(Header("Bearer x"), Named(Undefined), NoFile),
     Attempt(Header("Bearer s"), "{bad", NoFile),
     Attempt(Header("Bearer s"), "null", NoFile),
     Attempt(Header("Bearer s"), JSONStringify(JObj(Str("Alice"), Undefined, Undefined, Undefined)), NoFile),
     Attempt(Header("Bearer s"), Named(Undefined), NoFile),
     Attempt(Header("Bearer s"), Named(Undefined), File("trophy.png")),
     Attempt(Header("Bearer s"), Named(Str("https://cdn/i.png")), NoFile),
     Attempt(Header("Bearer s"), Named(Num("123")), NoFile)}

InitConc == InitOn(1 .. NumRequests)

NextConc ==
    \/ ClientReady
    \/ LoginRejects
    \/ \E r \in 1 .. NumRequests :
          \/ Receive(r, FewInputs)
          \/ Handle(r)
          \/ FetchSettles(r)
          \/ SendSettles(r)

SpecConc == InitConc /\ [][NextConc]_vars

-----------------------------------------------------------------------------
(* Vocabulary of the properties                                            *)

Slots == DOMAIN pc

Arrived(r) == pc[r] # "idle"

\* The handler proper (line 103 onwards) has run for the request.
Handled(r) == readyRead[r] # "unread"

\* The chat link was used for the request: a channel resolution or a send.
ChatContacted(r) ==
    \/ fetches[r] > 0
    \/ sends[r] > 0
    \/ outbound[r].called
    \/ channelGot[r] # NotSettled
    \/ sendGot[r] # NotSettled

Answered(r, status) == pc[r] = "done" /\ response[r].status = status

\* sub occurs in s.
RECURSIVE ContainsFrom(_, _, _)
ContainsFrom(s, sub, i) ==
    IF i + Len(sub) - 1 > Len(s) THEN FALSE
    ELSE IF SubSeq(s, i, i + Len(sub) - 1) = sub THEN TRUE
    ELSE ContainsFrom(s, sub, i + 1)

Contains(s, sub) == ContainsFrom(s, sub, 1)

\* Every error text the handler or the transport can raise.
ErrorTexts ==
    {ErrDestructure, ErrStartsWith}
    \cup {x.error : x \in {y \in FetchResults : y.kind = "rejected"}}
    \cup {x.error : x \in {y \in SendResults : ~y.ok}}

\* The field is absent, or its text is the JSON text of no value.
InvalidJsonData(field) ==
    \/ ~field.present
    \/ field.text \notin JsonTexts

\* The decoded value carries a non-empty userName and achievementName.
HasNames(payload) ==
    /\ Truthy(Get(payload, "userName"))
    /\ Truthy(Get(payload, "achievementName"))

IsHttpUrl(v) ==
    /\ v.t = "string"
    /\ StartsWith(v.s, "http://") \/ StartsWith(v.s, "https://")

-----------------------------------------------------------------------------
(* C1: a request with no Authorization header, or with one that does not   *)
(* start with "Bearer ", is answered 401, and neither a channel resolution *)
(* nor a send is made for it, whatever its body and the readiness flag.    *)

MissingOrNotBearer(h) == ~h.present \/ ~StartsWith(h.value, "Bearer ")

C1_NoBearerIs401 ==
    \A r \in Slots :
        (Arrived(r) /\ MissingOrNotBearer(request[r].authorization))
        => /\ Answered(r, 401)
           /\ ~Handled(r)
           /\ ~ChatContacted(r)

C1_Witness ==
    \E r \in Slots :
        /\ Answered(r, 401)
        /\ ~request[r].authorization.present
        /\ discordReady
        /\ request[r].file.present
        /\ ~InvalidJsonData(request[r].jsonData)
        /\ HasNames(PayloadOf(r))

(* C2: a request whose header is "Bearer " followed by one token that is   *)
(* not the configured secret is answered 403, never 401, and reaches       *)
(* neither the readiness check, nor the decoder, nor the dispatcher.       *)

\* "Bearer <token>": the scheme, one space, and a token without spaces.
WellFormed(h) ==
    /\ h.present
    /\ StartsWith(h.value, "Bearer ")
    /\ IndexOf(AfterBearer(h.value), " ", 1) = 0

C2_WrongSecretIs403 ==
    \A r \in Slots :
        (/\ Arrived(r)
         /\ WellFormed(request[r].authorization)
         /\ AfterBearer(request[r].authorization.value) # EXPECTED_SECRET)
        => /\ Answered(r, 403)
           /\ ~Handled(r)
           /\ ~ChatContacted(r)

C2_Witness ==
    \E r \in Slots :
        /\ Answered(r, 403)
        /\ request[r].authorization = Header("Bearer x")
        /\ EXPECTED_SECRET = "s"
        /\ discordReady

(* C3: the gate lets a request proceed if and only if the whole text after *)
(* "Bearer " equals the configured secret.                                 *)

GatePassed(r) == Arrived(r) /\ response[r].status \notin {401, 403}

C3_ExactTokenIff ==
    \A r \in Slots :
        (/\ Arrived(r)
         /\ request[r].authorization.present
         /\ StartsWith(request[r].authorization.value, "Bearer "))
        => (GatePassed(r)
            <=> AfterBearer(request[r].authorization.value) = EXPECTED_SECRET)

(* C4: a request handled while the readiness flag is not ready is answered *)
(* 503 whether or not its payload is valid, and neither a channel          *)
(* resolution nor a send is made for it, then or later.                    *)

C4_NotReadyIs503 ==
    \A r \in Slots :
        readyRead[r] = "notready"
        => /\ Answered(r, 503)
           /\ ~ChatContacted(r)

C4_Witness ==
    \E r \in Slots :
        /\ readyRead[r] = "notready"
        /\ Answered(r, 503)
        /\ ~InvalidJsonData(request[r].jsonData)
        /\ HasNames(PayloadOf(r))
        /\ discordReady

(* C5, as stated: every authenticated request whose jsonData is absent or  *)
(* not valid JSON is answered 400 and never reaches the dispatcher.        *)

C5_BadJsonIs400_Always ==
    \A r \in Slots :
        (Handled(r) /\ InvalidJsonData(request[r].jsonData))
        => /\ Answered(r, 400)
           /\ ~ChatContacted(r)

(* C5, amended: every authenticated request handled while the readiness    *)
(* flag is ready whose jsonData is absent or not valid JSON is answered    *)
(* 400 and never reaches the dispatcher.                                   *)

C5_BadJsonIs400_WhenReady ==
    \A r \in Slots :
        (readyRead[r] = "ready" /\ InvalidJsonData(request[r].jsonData))
        => /\ Answered(r, 400)
           /\ response[r].body = BodyBadJson
           /\ ~ChatContacted(r)

C5_Witness ==
    \E r \in Slots :
        /\ readyRead[r] = "ready"
        /\ request[r].jsonData = Field("{bad")
        /\ Answered(r, 400)

(* C6: every authenticated request (handled while ready) whose jsonData is *)
(* valid JSON without a non-empty userName and a non-empty achievementName *)
(* (an object lacking a field or with an empty one, or a value that is not *)
(* an object) is answered 400 and no resolution or send occurs.            *)

C6_MissingNamesIs400 ==
    \A r \in Slots :
        (/\ readyRead[r] = "ready"
         /\ ~InvalidJsonData(request[r].jsonData)
         /\ ~HasNames(PayloadOf(r)))
        => /\ Answered(r, 400)
           /\ ~ChatContacted(r)

(* C7: when a request with an uploaded file reaches message construction,  *)
(* the message is sent with exactly that file, its image is the attachment *)
(* reference and the iconSource URL is in no image slot, whatever          *)
(* iconSource is; no message uses both an attachment and a URL.            *)

C7_AttachmentWins ==
    \A r \in Slots :
        LET m == outbound[r]
            iconSource == Get(PayloadOf(r), "iconSource")
        IN  /\ (request[r].file.present /\ channelGot[r].kind = "TextChannel")
               => m.called
            /\ (m.called /\ request[r].file.present)
               => /\ Len(m.files) = 1
                  /\ m.embed.image = "attachment://" \o m.files[1]
                  /\ m.embed.thumbnail = ""
                  /\ Truthy(iconSource)
                     => /\ m.embed.image # iconSource.s
                        /\ ~Contains(m.embed.description, iconSource.s)
            /\ m.called
               => ~(m.embed.image # "" /\ m.embed.thumbnail # "")

C7_Witness ==
    \E r \in Slots :
        /\ Answered(r, 200)
        /\ request[r].file = File("trophy.png")
        /\ Get(PayloadOf(r), "iconSource") = Str("http://cdn/i.png")
        /\ outbound[r].embed.image = "attachment://trophy.png"

(* C8: for a request with no uploaded file whose iconSource is present but *)
(* is not a string starting with "http://" or "https://", the message that *)
(* is sent has no image reference and no file, and the request is answered *)
(* 200 when the send succeeds.                                             *)

UntrustedIcon(payload) ==
    /\ Get(payload, "iconSource").t # "undefined"
    /\ ~IsHttpUrl(Get(payload, "iconSource"))

C8_UntrustedIconNoImage ==
    \A r \in Slots :
        (~request[r].file.present /\ UntrustedIcon(PayloadOf(r)))
        => /\ (/\ channelGot[r].kind = "TextChannel"
               /\ Get(PayloadOf(r), "iconSource").t = "string")
              => outbound[r].called
           /\ outbound[r].called
              => /\ outbound[r].embed.image = ""
                 /\ outbound[r].embed.thumbnail = ""
                 /\ outbound[r].files = <<>>
           /\ sendGot[r].kind = "ok" => Answered(r, 200)

C8_Witness ==
    \E r \in Slots :
        /\ Answered(r, 200)
        /\ ~request[r].file.present
        /\ Get(PayloadOf(r), "iconSource") = Str("ftp://evil")
        /\ outbound[r].called

(* C9: when the channel resolution of a request returns nothing or a       *)
(* channel that is not a text channel, the request is answered 500 with    *)
(* the fixed body, which holds no error text, and no send is attempted.    *)
(* Every request that gets that far resolves the channel itself, once, and *)
(* is answered from its own result, whatever the resolutions of earlier    *)
(* requests returned.                                                      *)

\* The request has called client.channels.fetch.
Resolving(r) == pc[r] = "fetching" \/ channelGot[r] # NotSettled

\* The body of line 147 holds none of the error texts.
NoChannelBodyHoldsNoError == \A e \in ErrorTexts : ~Contains(BodyNoChannel, e)

C9_NoChannelIs500 ==
    \A r \in Slots :
        /\ channelGot[r].kind \in {"null", "VoiceChannel"}
           => /\ Answered(r, 500)
              /\ response[r].body = BodyNoChannel
              /\ NoChannelBodyHoldsNoError
              /\ sends[r] = 0
              /\ ~outbound[r].called
              /\ readyRead[r] = "ready"
              /\ HasNames(PayloadOf(r))
        /\ Resolving(r) => fetches[r] = 1
        /\ (/\ readyRead[r] = "ready"
            /\ ~InvalidJsonData(request[r].jsonData)
            /\ HasNames(PayloadOf(r)))
           => /\ fetches[r] = 1
              /\ Resolving(r) \/ pc[r] = "dropped"
        /\ outbound[r].called => channelGot[r].kind = "TextChannel"

\* A request is answered 500 for a resolution that returned nothing, though
\* the resolution of another request, since answered 200, had returned a
\* text channel before this one's resolution was even called.
C9_Witness ==
    \E r \in Slots : \E q \in Slots \ {r} :
        /\ channelGot[q].kind = "TextChannel"
        /\ Answered(q, 200)
        /\ channelKnown[r]
        /\ channelGot[r].kind = "null"
        /\ Answered(r, 500)
        /\ fetches[r] = 1
        /\ fetches[q] = 1

(* C10: once a request has passed the gate, the readiness check and the    *)
(* validation, any failure raised by the channel resolution, the message   *)
(* construction or the send ends it with 500 and one fixed body that does  *)
(* not hold the error.                                                     *)

Failed(r) ==
    \/ channelGot[r].kind = "rejected"
    \/ sendGot[r].kind = "rejected"
    \/ thrown[r] # ""

C10_FailureIs500 ==
    \A r \in Slots :
        (fetches[r] > 0 /\ Failed(r))
        => /\ Answered(r, 500)
           /\ response[r].body = BodyFailed
           /\ thrown[r] \in ErrorTexts
           /\ \A e \in ErrorTexts : ~Contains(response[r].body, e)

C10_Witness ==
    \E r \in Slots :
        /\ thrown[r] = ErrStartsWith
        /\ channelGot[r].kind = "TextChannel"
        /\ Answered(r, 500)

(* C11: an authenticated request handled while ready, with a non-empty    *)
(* userName and achievementName, no upload and no iconSource, whose        *)
(* channel resolution and send succeed, is answered 200 after exactly one  *)
(* send; the message has the fixed title, a description holding both       *)
(* names, no file and no image.                                            *)

C11_PlainNotification ==
    \A r \in Slots :
        LET payload == PayloadOf(r) IN
        (/\ HasNames(payload)
         /\ ~request[r].file.present
         /\ Get(payload, "iconSource").t = "undefined"
         /\ channelGot[r].kind = "TextChannel")
        => /\ outbound[r].called
           /\ sends[r] = 1
           /\ outbound[r].embed.title = Title
           /\ Contains(outbound[r].embed.description, Get(payload, "userName").s)
           /\ Contains(outbound[r].embed.description, Get(payload, "achievementName").s)
           /\ outbound[r].files = <<>>
           /\ outbound[r].embed.image = ""
           /\ outbound[r].embed.thumbnail = ""
           /\ sendGot[r].kind = "ok" => Answered(r, 200)

C11_Witness ==
    \E r \in Slots :
        /\ request[r].jsonData =
              Field("{\"userName\":\"Alice\",\"achievementName\":\"Dragon Slayer\"}")
        /\ ~request[r].file.present
        /\ Answered(r, 200)
        /\ outbound[r].embed.description
              = "**Alice** has unlocked the achievement: **Dragon Slayer**!"

(* C15: when a file was uploaded, the send carries exactly one file, named *)
(* by the upload's original filename if it has one and otherwise           *)
(* "achievement-<achievementName>.png", and the message's image is         *)
(* "attachment://" followed by exactly that name.                          *)

C15_AttachmentNamed ==
    \A r \in Slots :
        (outbound[r].called /\ request[r].file.present)
        => LET original == request[r].file.originalname
               expected ==
                   IF original # "" THEN original
                   ELSE "achievement-"
                        \o Get(PayloadOf(r), "achievementName").s \o ".png"
           IN  /\ outbound[r].files = <<expected>>
               /\ outbound[r].embed.image = "attachment://" \o expected
               /\ sendGot[r].kind = "ok" => Answered(r, 200)

C15_Witness ==
    \E r \in Slots :
        /\ request[r].file = File("trophy.png")
        /\ outbound[r].files = <<"trophy.png">>
        /\ outbound[r].embed.image = "attachment://trophy.png"
        /\ Answered(r, 200)

(* C16, as stated: with no upload and an iconSource starting with          *)
(* "http://" or "https://", the image slot (the one that holds the         *)
(* attachment reference otherwise) is that URL and no file is sent; with   *)
(* neither an upload nor such an iconSource no image is included.          *)

C16_UrlInImageSlot ==
    \A r \in Slots :
        LET iconSource == Get(PayloadOf(r), "iconSource") IN
        (outbound[r].called /\ ~request[r].file.present)
        => IF IsHttpUrl(iconSource)
           THEN /\ outbound[r].embed.image = iconSource.s
                /\ outbound[r].files = <<>>
           ELSE /\ outbound[r].embed.image = ""
                /\ outbound[r].embed.thumbnail = ""

(* C16, amended: with no upload and an iconSource starting with "http://"  *)
(* or "https://", the thumbnail slot is that URL, the image slot (the one  *)
(* that holds the attachment reference otherwise) stays unset and no file  *)
(* is sent; with neither an upload nor such an iconSource no image or      *)
(* thumbnail is included.                                                  *)

C16_UrlInThumbnailSlot ==
    \A r \in Slots :
        LET iconSource == Get(PayloadOf(r), "iconSource") IN
        /\ (/\ ~request[r].file.present
            /\ IsHttpUrl(iconSource)
            /\ channelGot[r].kind = "TextChannel")
           => outbound[r].called
        /\ (outbound[r].called /\ ~request[r].file.present)
           => IF IsHttpUrl(iconSource)
              THEN /\ outbound[r].embed.thumbnail = iconSource.s
                   /\ outbound[r].embed.image = ""
                   /\ outbound[r].files = <<>>
              ELSE /\ outbound[r].embed.image = ""
                   /\ outbound[r].embed.thumbnail = ""
                   /\ outbound[r].files = <<>>

C16_Witness ==
    \E r \in Slots :
        /\ ~request[r].file.present
        /\ Get(PayloadOf(r), "iconSource") = Str("https://cdn/i.png")
        /\ outbound[r].embed.thumbnail = "https://cdn/i.png"
        /\ Answered(r, 200)

(* C17: a request is answered 200 if and only if its send was made and     *)
(* settled successfully; no 200 exists for a request whose send is         *)
(* pending, failed or was never attempted.                                 *)

C17_OkIffSent ==
    \A r \in Slots :
        /\ response[r].status = 200 <=> sendGot[r].kind = "ok"
        /\ response[r].status = 200
           => /\ pc[r] = "done"
              /\ sends[r] = 1
              /\ outbound[r].called
              /\ channelGot[r].kind = "TextChannel"
        /\ pc[r] = "sending" => response[r] = NoResponse

C17_Witness ==
    \E r \in Slots :
        /\ Answered(r, 200)
        /\ sendGot[r].kind = "ok"
        /\ response[r].body = BodySent

(* C12: the readiness flag starts not ready, only the ready callback      *)
(* writes it, it goes from not ready to ready and never back, and no step  *)
(* of a request handler changes the flag or the configuration.             *)

RequestState ==
    <<pc, request, flagAtArrival, readyRead, fetches, sends, channelGot,
      channelKnown, sendGot, outbound, thrown, response>>

C12_FlagWrittenOnce ==
    /\ discordReady = FALSE
    /\ [][/\ discordReady => discordReady'
          /\ EXPECTED_SECRET' = EXPECTED_SECRET
          /\ discordReady' # discordReady => UNCHANGED RequestState
          /\ RequestState' # RequestState => discordReady' = discordReady]_vars

C12_Witness ==
    /\ discordReady
    /\ \E r \in Slots : readyRead[r] = "notready" /\ Answered(r, 503)
    /\ \E r \in Slots : readyRead[r] = "ready" /\ Answered(r, 200)

(* C13: over the life of a request at most one channel resolution and at   *)
(* most one send are made, the send carries at most one file, and a failed *)
(* resolution or a failed send ends the request: nothing is retried and    *)
(* nothing changes once it has ended.                                      *)

C13_SingleShot ==
    [][\A r \in Slots :
          /\ fetches'[r] <= 1
          /\ sends'[r] <= 1
          /\ Len(outbound'[r].files) <= 1
          /\ channelGot'[r].kind \in {"rejected", "null", "VoiceChannel"}
             => pc'[r] = "done" /\ sends'[r] = 0
          /\ sendGot'[r].kind = "rejected" => pc'[r] = "done"
          /\ pc[r] \in {"done", "hung", "dropped"}
             => /\ pc'[r] = pc[r]
                /\ fetches'[r] = fetches[r]
                /\ sends'[r] = sends[r]
                /\ outbound'[r] = outbound[r]
                /\ response'[r] = response[r]]_vars

C13_Witness ==
    \E r \in Slots :
        /\ sendGot[r].kind = "rejected"
        /\ Answered(r, 500)
        /\ fetches[r] = 1
        /\ sends[r] = 1
        /\ Len(outbound[r].files) = 1
        /\ discordReady

(* C14: with several requests in flight, a request suspended on its       *)
(* channel resolution or its send does not block the others: every request *)
(* being handled can take its next step; and where a request stands and    *)
(* how it was answered follow from its own input, the flag value it read   *)
(* and what its own resolution and send returned.  The process ended by a  *)
(* failed login is left aside: it is the start-up of the process failing,  *)
(* not the handling of a request.                                          *)

\* The process was ended by the catch of client.login (lines 46-49): the
\* flag is set only after a successful login, and a handler throws only
\* after it has read the flag as ready.
LoginFailed == ~running /\ ~discordReady

Reply(o) == [status |-> o.status, body |-> o.body]

At(where) == [pc |-> where, response |-> NoResponse]

Ended(o) == [pc |-> "done", response |-> Reply(o)]

\* Where the request can stand, by its own input, the flag value it read
\* and the results of its own resolution and send, as far as they are in.
OwnCourse(r) ==
    LET gate == authenticateRequest(request[r].authorization, EXPECTED_SECRET)
        handled == notifyAchievement(readyRead[r] = "ready",
                                     request[r].jsonData)
        fetched == Caught(afterFetch(channelGot[r], PayloadOf(r),
                                     request[r].file))
        sent == Caught(afterSend([ok |-> sendGot[r].kind = "ok",
                                  error |-> sendGot[r].error]))
    IN  IF gate.kind = "respond" THEN {Ended(gate)}
        ELSE IF readyRead[r] = "unread" THEN {At("upload")}
        ELSE IF handled.kind = "respond" THEN {Ended(handled)}
        ELSE IF handled.kind = "throw"
        THEN {At("hung"), Ended(Respond(500, BodyFramework))}
        ELSE IF channelGot[r] = NotSettled THEN {At("fetching")}
        ELSE IF fetched.kind # "send" THEN {Ended(fetched)}
        ELSE IF sendGot[r] = NotSettled THEN {At("sending")}
        ELSE {Ended(sent)}

C14_Independent ==
    \A r \in Slots :
        (Arrived(r) /\ ~LoginFailed)
        => /\ [pc |-> pc[r], response |-> response[r]] \in OwnCourse(r)
           /\ pc[r] = "upload" => ENABLED Handle(r)
           /\ pc[r] = "fetching" => ENABLED FetchSettles(r)
           /\ pc[r] = "sending" => ENABLED SendSettles(r)

(* C18: every request that enters the endpoint ends with one of the        *)
(* responses 401, 403, 400, 503, 500, 200, or can still take a step        *)
(* towards one: no input leaves a request without a response.  The        *)
(* process ended by a failed login is left aside.                          *)

C18_AlwaysAnswered ==
    \A r \in Slots :
        (Arrived(r) /\ ~LoginFailed)
        => \/ /\ pc[r] = "done"
              /\ response[r].status \in {401, 403, 400, 503, 500, 200}
           \/ /\ response[r] = NoResponse
              /\ ENABLED (Handle(r) \/ FetchSettles(r) \/ SendSettles(r))

(* C19: once the flag is ready, a request whose readiness check runs reads *)
(* ready and is not answered 503, also when it arrived before the flag     *)
(* flipped; a request is answered 503 exactly when its check read not      *)
(* ready, whatever the flag does afterwards.                               *)

C19_No503OnceReady ==
    [][\A r \in Slots :
          /\ (readyRead[r] = "unread" /\ readyRead'[r] # "unread")
             => readyRead'[r] = IF discordReady THEN "ready" ELSE "notready"
          /\ readyRead[r] # "unread" => readyRead'[r] = readyRead[r]
          /\ readyRead'[r] = "notready" <=> response'[r].status = 503
          /\ readyRead'[r] = "notready" => pc'[r] = "done"]_vars

C19_Witness ==
    /\ \E r \in Slots :
          ~flagAtArrival[r] /\ readyRead[r] = "ready" /\ Answered(r, 200)
    /\ \E r \in Slots :
          readyRead[r] = "notready" /\ Answered(r, 503) /\ discordReady

====
